---- MODULE Spec2Model ----
(***************************************************************************)
(* Model of geocode_ll.py: a batch job that fetches the listings missing a *)
(* coordinate, geocodes each one through an HTTP API and writes the        *)
(* coordinates back inside one store transaction.                          *)
(*                                                                         *)
(* One run of main() is a walk of pc through                               *)
(*   main -> connect -> fetch -> for -> (geocode -> (backoff -> retry)     *)
(*   -> write -> sleep -> for)* -> commit -> [except] -> finally -> exit   *)
(* and NewRun starts the next invocation of the script on the same store.  *)
(* Python None and SQL NULL are the empty tuple; a present value v is the  *)
(* one-element tuple <<v>>.  Coordinates are in tenths of a degree.        *)
(***************************************************************************)
EXTENDS Integers, Sequences, FiniteSets, TLC

\* Number of rows of the listings table (their ids are 1..MaxRows).
MaxRows == 2

\* time.sleep(10) on a quota error and time.sleep(0.15) after a row, in ms.
BackoffMillis == 10000
PaceMillis == 150
\* The progress line is printed every 25 rows.
ProgressEvery == 25

Ids == 1..MaxRows

None == <<>>
Some(v) == <<v>>

\* A test for None alone, in place of truthiness.
Truthy_NotNone(v) == v # None

\* Python truthiness of an optional text value: None and "" are falsy.
Truthy(v) == v # None /\ v[1] # ""

(***************************************************************************)
(* The store: table public.apartment_properties_listings.                  *)
(***************************************************************************)
\* The text columns of a row: one with every field absent or empty, and one
\* with a field absent between present ones.
TextSamples ==
    { [name |-> None, address |-> Some(""), city |-> None, state |-> Some(""),
       zip_code |-> None],
      [name |-> Some("Maple Court"), address |-> Some("10 Elm St"),
       city |-> Some("Springfield"), state |-> None,
       zip_code |-> Some("00001")] }

StoredRows ==
    { [name |-> t.name, address |-> t.address, city |-> t.city,
       state |-> t.state, zip_code |-> t.zip_code,
       latitude |-> la, longitude |-> lo, updated_at |-> "old"] :
         t \in TextSamples, la \in {None, Some(372)}, lo \in {None, Some(-804)} }

\* Values of the two environment variables read at import time.
EnvValues == {None, Some(""), Some("set")}

(***************************************************************************)
(* make_query: the non-empty fields, in the order name, address, city,     *)
(* state, zip_code, joined by ", ".                                        *)
(***************************************************************************)
RECURSIVE Join(_)
Join(parts) ==
    IF parts = <<>> THEN ""
    ELSE IF Len(parts) = 1 THEN parts[1]
    ELSE parts[1] \o ", " \o Join(Tail(parts))

Part(v) == IF Truthy(v) THEN <<v[1]>> ELSE <<>>

make_query(row) ==
    Join(Part(row.name) \o Part(row.address) \o Part(row.city)
         \o Part(row.state) \o Part(row.zip_code))

(***************************************************************************)
(* geocode: one HTTP exchange and the classification of its answer.        *)
(* A response is what the provider (or the network) does with the request: *)
(*   transport  "ok" | "fail"   requests.get returns or raises             *)
(*   code       HTTP status code                                           *)
(*   json       whether the body parses as a JSON object                   *)
(*   status     the body's "status" field, None when missing               *)
(*   results    the body's "results": each entry is a <<lat, lng>> pair,   *)
(*              or None for an entry without geometry.location             *)
(***************************************************************************)
PairA == <<401, -752>>
PairB == <<0, 0>>

Statuses == { Some("OK"), Some("ZERO_RESULTS"), Some("OVER_QUERY_LIMIT"),
              Some("RESOURCE_EXHAUSTED"), Some("REQUEST_DENIED"), None }

Responses ==
    { [transport |-> "fail", code |-> 0, json |-> FALSE, status |-> None,
       results |-> <<>>],
      [transport |-> "ok", code |-> 500, json |-> FALSE, status |-> None,
       results |-> <<>>],
      [transport |-> "ok", code |-> 200, json |-> FALSE, status |-> None,
       results |-> <<>>] }
    \cup { [transport |-> "ok", code |-> 200, json |-> TRUE, status |-> s,
            results |-> <<>>] : s \in Statuses }
    \cup { [transport |-> "ok", code |-> 200, json |-> TRUE,
            status |-> Some("OK"), results |-> rs] :
              rs \in { <<PairA>>, <<PairB, PairA>>, <<None>> } }
    \cup { [transport |-> "ok", code |-> 200, json |-> TRUE,
            status |-> Some("OVER_QUERY_LIMIT"), results |-> <<PairA>>] }

\* No HTTP exchange took place.
NoResponse ==
    [transport |-> "none", code |-> 0, json |-> FALSE, status |-> None,
     results |-> <<>>]

Raise(cls) == [raises |-> cls, lat |-> None, lng |-> None]
Return(la, lo) == [raises |-> "", lat |-> la, lng |-> lo]

\* No match answered with the origin instead of an absent pair.
NoMatch_Origin == Return(Some(0), Some(0))

\* Line 31: no match is an absent pair.
NoMatch == Return(None, None)

\* The quota test knowing one of the two quota statuses only.
geocode_OneQuotaStatus(r) ==
    IF r.transport = "fail" THEN Raise("Exception")
    ELSE IF r.code >= 400 THEN Raise("Exception")
    ELSE IF ~r.json THEN Raise("Exception")
    ELSE IF r.status = Some("OK") /\ r.results # <<>>
         THEN IF r.results[1] = None THEN Raise("Exception")
              ELSE Return(Some(r.results[1][1]), Some(r.results[1][2]))
    ELSE IF r.status = Some("OVER_QUERY_LIMIT") THEN Raise("RuntimeError")
    ELSE NoMatch

\* "RuntimeError" is the class raised on a quota status; "Exception" stands
\* for every other exception class (requests, JSON and lookup errors), none
\* of which derives from RuntimeError.
geocode(r) ==
    IF r.transport = "fail" THEN Raise("Exception")
    ELSE IF r.code >= 400 THEN Raise("Exception")
    ELSE IF ~r.json THEN Raise("Exception")
    ELSE IF r.status = Some("OK") /\ r.results # <<>>
         THEN IF r.results[1] = None THEN Raise("Exception")
              ELSE Return(Some(r.results[1][1]), Some(r.results[1][2]))
    ELSE IF r.status \in {Some("OVER_QUERY_LIMIT"), Some("RESOURCE_EXHAUSTED")}
         THEN Raise("RuntimeError")
    ELSE NoMatch

\* What a call did, as it is written to the log.
Kind(out) ==
    IF out.raises # "" THEN out.raises
    ELSE IF out.lat # None THEN "pair" ELSE "none"
Value(out) ==
    IF out.raises = "" /\ out.lat # None THEN <<out.lat[1], out.lng[1]>>
    ELSE None

(***************************************************************************)
(* The fetch query: WHERE latitude IS NULL OR longitude IS NULL            *)
(* ORDER BY id.                                                            *)
(***************************************************************************)
\* The second test written as IS NOT NULL.
Where_Typo(r) == r.latitude = None \/ r.longitude # None

Where(r) == r.latitude = None \/ r.longitude = None

Selected(table, k) ==
    [id |-> k, name |-> table[k].name, address |-> table[k].address,
     city |-> table[k].city, state |-> table[k].state,
     zip_code |-> table[k].zip_code, latitude |-> table[k].latitude,
     longitude |-> table[k].longitude]

\* The query without its ORDER BY: the store answers in another order.
RECURSIVE SelectFrom_Unordered(_, _)
SelectFrom_Unordered(table, k) ==
    IF k > MaxRows THEN <<>>
    ELSE SelectFrom_Unordered(table, k + 1)
         \o (IF Where(table[k]) THEN <<Selected(table, k)>> ELSE <<>>)

RECURSIVE SelectFrom(_, _)
SelectFrom(table, k) ==
    IF k > MaxRows THEN <<>>
    ELSE (IF Where(table[k]) THEN <<Selected(table, k)>> ELSE <<>>)
         \o SelectFrom(table, k + 1)

Select(table) == SelectFrom(table, 1)

\* The UPDATE statements of the open transaction, applied at commit.
Apply(table, writes) ==
    [k \in Ids |->
        IF writes[k] = None THEN table[k]
        ELSE [table[k] EXCEPT !.latitude = Some(writes[k][1]),
                              !.longitude = Some(writes[k][2]),
                              !.updated_at = "NOW"]]

NoWrites == [k \in Ids |-> None]

VARIABLES
    PG_DSN,      \* os.getenv("PG_DSN")
    GOOGLE_KEY,  \* os.getenv("GOOGLE_MAPS_API_KEY")
    db,          \* the committed contents of the table
    txn,         \* id -> None | <<lat, lng>>: uncommitted UPDATEs of the run
    conn,        \* "none" | "open" | "closed"
    pc,          \* position of the run in main()
    rows,        \* cur.fetchall()
    total,       \* len(rows)
    updated,     \* the updated counter
    i,           \* enumerate(rows, 1) position
    q,           \* the query string of the current row
    lat, lng,    \* the current geocoding result
    exc,         \* the exception in flight ("" when none)
    exit,        \* "running" | "zero" | "nonzero"
    log,         \* this run's calls, in order
    resp,        \* the HTTP response the step just taken received, if any
    db0,         \* the table as it was when this run started
    committed,   \* ids whose UPDATE this run has committed
    persisted    \* ids whose UPDATE an earlier run committed

vars == <<PG_DSN, GOOGLE_KEY, db, txn, conn, pc, rows, total, updated, i, q,
          lat, lng, exc, exit, log, resp, db0, committed, persisted>>

env == <<PG_DSN, GOOGLE_KEY>>
locals == <<rows, total, updated, i, q, lat, lng>>
hist == <<db0, committed, persisted>>

Init ==
    /\ PG_DSN \in EnvValues
    /\ GOOGLE_KEY \in EnvValues
    /\ db \in [Ids -> StoredRows]
    /\ txn = NoWrites
    /\ conn = "none"
    /\ pc = "main"
    /\ rows = <<>>
    /\ total = 0
    /\ updated = 0
    /\ i = 0
    /\ q = ""
    /\ lat = None
    /\ lng = None
    /\ exc = ""
    /\ exit = "running"
    /\ log = <<>>
    /\ resp = NoResponse
    /\ db0 = db
    /\ committed = {}
    /\ persisted = {}

row == rows[i]

\* A log entry is <<what, row id, detail, value>>: detail is a string and
\* value a tuple (None, a coordinate pair, or a one-element number).
Logged(what, id, detail, val) == Append(log, <<what, id, detail, val>>)

\* The progress line of lines 67-68 and 94-95, printed for row n.
Progress(n) == n % ProgressEvery = 0 \/ n = total
WithProgress(l, n, upd) ==
    IF Progress(n) THEN Append(l, <<"progress", n, "", <<upd>>>>) ELSE l

\* The test written with "and": only both settings missing stop the run.
Missing_Both(dsn, key) == ~Truthy(dsn) /\ ~Truthy(key)

\* Line 34: not PG_DSN or not GOOGLE_KEY.
Missing(dsn, key) == ~Truthy(dsn) \/ ~Truthy(key)

\* Lines 34-35: both settings are required.
Config ==
    /\ resp' = NoResponse
    /\ pc = "main"
    /\ IF Missing(PG_DSN, GOOGLE_KEY)
       THEN pc' = "exit" /\ exc' = "SystemExit" /\ exit' = "nonzero"
       ELSE pc' = "connect" /\ UNCHANGED <<exc, exit>>
    /\ UNCHANGED <<env, db, txn, conn, locals, log, hist>>

\* Lines 40-41, outside the try block: a failure leaves main() directly.
Connect ==
    /\ resp' = NoResponse
    /\ pc = "connect"
    /\ \/ /\ conn' = "open"
          /\ pc' = "fetch"
          /\ log' = Logged("connect", 0, "ok", None)
          /\ UNCHANGED <<exc, exit>>
       \/ /\ conn' = "none"
          /\ pc' = "exit"
          /\ exc' = "Exception"
          /\ exit' = "nonzero"
          /\ log' = Logged("connect", 0, "fail", None)
    /\ UNCHANGED <<env, db, txn, locals, hist>>

\* Lines 43-63: the fetch query and the counters.
Fetch ==
    /\ resp' = NoResponse
    /\ pc = "fetch"
    /\ \/ /\ rows' = Select(db)
          /\ total' = Len(Select(db))
          /\ updated' = 0
          /\ pc' = "for"
          /\ log' = Logged("fetch", 0, "ok", None)
          /\ UNCHANGED exc
       \/ /\ exc' = "Exception"
          /\ pc' = "except"
          /\ log' = Logged("fetch", 0, "fail", None)
          /\ UNCHANGED <<rows, total, updated>>
    /\ UNCHANGED <<env, db, txn, conn, i, q, lat, lng, exit, hist>>

\* The empty query falling through to the pause instead of "continue".
AfterQuery_Paced(query) == IF query = "" THEN "sleep" ELSE "geocode"

\* Lines 66-69: a row with an empty query is passed over by "continue".
AfterQuery(query) == IF query = "" THEN "for" ELSE "geocode"

\* Lines 64-69: the next row and its query; an empty query skips the row.
For ==
    /\ resp' = NoResponse
    /\ pc = "for"
    /\ IF i < total
       THEN /\ i' = i + 1
            /\ q' = make_query(rows[i + 1])
            /\ pc' = AfterQuery(q')
            /\ IF q' = ""
               THEN log' = WithProgress(log, i + 1, updated)
               ELSE UNCHANGED log
       ELSE /\ pc' = "commit"
            /\ UNCHANGED <<i, q, log>>
    /\ UNCHANGED <<env, db, txn, conn, rows, total, updated, lat, lng, exc,
                   exit, hist>>

\* The retry handler catching every exception class.
AfterFirst_RetryAll(out) ==
    IF out.raises # "" THEN "backoff" ELSE "write"

\* The quota handler retrying at once, without its pause.
AfterFirst_NoBackoff(out) ==
    IF out.raises = "RuntimeError" THEN "retry" ELSE "write"

\* Where the first call's outcome leads (lines 72-79).
AfterFirst(out) ==
    IF out.raises = "RuntimeError" THEN "backoff" ELSE "write"

\* Lines 72-73 and 77-79: the first call for the row.
Geocode ==
    /\ pc = "geocode"
    /\ \E r \in Responses :
         LET out == geocode(r) IN
         /\ resp' = r
         /\ log' = Logged("geocode", row.id, Kind(out), Value(out))
         /\ pc' = AfterFirst(out)
         /\ IF pc' = "write"
            THEN lat' = out.lat /\ lng' = out.lng
            ELSE UNCHANGED <<lat, lng>>
    /\ UNCHANGED <<env, db, txn, conn, rows, total, updated, i, q, exc, exit,
                   hist>>

\* Lines 74-75: the quota handler's message and pause.
Backoff ==
    /\ resp' = NoResponse
    /\ pc = "backoff"
    /\ log' = Logged("sleep", row.id, "", <<BackoffMillis>>)
    /\ pc' = "retry"
    /\ UNCHANGED <<env, db, txn, conn, locals, exc, exit, hist>>

\* The retry written as a loop: a quota error backs off again.
AfterRetry_Again(out) ==
    IF out.raises = "RuntimeError" THEN "backoff"
    ELSE IF out.raises # "" THEN "except" ELSE "write"

\* Where the second call's outcome leads (line 76, inside the handler of
\* line 73: an exception raised here is not seen by the clause of line 77).
AfterRetry(out) ==
    IF out.raises # "" THEN "except" ELSE "write"

\* Line 76: the second call for the row.
Retry ==
    /\ pc = "retry"
    /\ \E r \in Responses :
         LET out == geocode(r) IN
         /\ resp' = r
         /\ log' = Logged("geocode", row.id, Kind(out), Value(out))
         /\ pc' = AfterRetry(out)
         /\ IF pc' = "write"
            THEN lat' = out.lat /\ lng' = out.lng /\ UNCHANGED exc
            ELSE exc' = out.raises /\ UNCHANGED <<lat, lng>>
    /\ UNCHANGED <<env, db, txn, conn, rows, total, updated, i, q, exit,
                   hist>>

\* The connection left in autocommit mode.
Autocommit_On == TRUE

\* Line 41: statements take effect at commit, not one by one.
Autocommit == FALSE

\* The test written as "if lat and lng": 0.0 counts as missing.
Resolved_Truthy(la, lo) == la # None /\ lo # None /\ la[1] # 0 /\ lo[1] # 0

\* Line 81: both coordinates are present.
Resolved(la, lo) == la # None /\ lo # None

\* The increment lost.
Incremented_Lost(n) == n

\* Line 90: updated += 1.
Incremented(n) == n + 1

\* Lines 81-95: the UPDATE of a resolved row, and the progress line.
Write ==
    /\ resp' = NoResponse
    /\ pc = "write"
    /\ IF Resolved(lat, lng)
       THEN \/ /\ IF Autocommit
                  THEN /\ db' = Apply(db, [NoWrites EXCEPT ![row.id] =
                                                      <<lat[1], lng[1]>>])
                       /\ UNCHANGED txn
                  ELSE /\ txn' = [txn EXCEPT ![row.id] = <<lat[1], lng[1]>>]
                       /\ UNCHANGED db
               /\ updated' = Incremented(updated)
               /\ log' = WithProgress(Logged("update", row.id, "ok",
                                             <<lat[1], lng[1]>>),
                                      i, updated')
               /\ pc' = "sleep"
               /\ UNCHANGED exc
            \/ /\ exc' = "Exception"
               /\ log' = Logged("update", row.id, "fail", <<lat[1], lng[1]>>)
               /\ pc' = "except"
               /\ UNCHANGED <<db, txn, updated>>
       ELSE /\ log' = WithProgress(Logged("nomatch", row.id, q, None), i,
                                   updated)
            /\ pc' = "sleep"
            /\ UNCHANGED <<db, txn, updated, exc>>
    /\ UNCHANGED <<env, conn, rows, total, i, q, lat, lng, exit, hist>>

\* Line 97: the pause after a row.
Pace ==
    /\ resp' = NoResponse
    /\ pc = "sleep"
    /\ log' = Logged("sleep", row.id, "", <<PaceMillis>>)
    /\ pc' = "for"
    /\ UNCHANGED <<env, db, txn, conn, locals, exc, exit, hist>>

\* Lines 99-100: the commit of the run's UPDATEs.
Commit ==
    /\ resp' = NoResponse
    /\ pc = "commit"
    /\ \/ /\ db' = Apply(db, txn)
          /\ committed' = {k \in Ids : txn[k] # None}
          /\ txn' = NoWrites
          /\ log' = Logged("commit", 0, "ok", None)
          /\ pc' = "finally"
          /\ UNCHANGED exc
       \/ /\ exc' = "Exception"
          /\ log' = Logged("commit", 0, "fail", None)
          /\ pc' = "except"
          /\ UNCHANGED <<db, txn, committed>>
    /\ UNCHANGED <<env, conn, locals, exit, db0, persisted>>

\* The close placed after the try statement instead of in a finally clause.
AfterRollback_NoFinally == "exit"

\* Lines 104-105: the re-raised exception leaves through the finally clause.
AfterRollback == "finally"

\* Lines 101-104: rollback, message, re-raise.
Except ==
    /\ resp' = NoResponse
    /\ pc = "except"
    /\ txn' = NoWrites
    /\ log' = Logged("rollback", 0, exc, None)
    /\ pc' = AfterRollback
    /\ UNCHANGED <<env, db, conn, locals, exc, exit, hist>>

\* The handler without its "raise": the exception is swallowed.
ExitStatus_Swallowed(e) == "zero"

\* Lines 104 and 108-109: an exception that leaves main() ends the process
\* with a non-zero status.
ExitStatus(e) == IF e = "" THEN "zero" ELSE "nonzero"

\* Lines 105-106, and the end of the process.
Finally ==
    /\ resp' = NoResponse
    /\ pc = "finally"
    /\ conn' = "closed"
    /\ txn' = NoWrites
    /\ log' = Logged("close", 0, "", None)
    /\ pc' = "exit"
    /\ exit' = ExitStatus(exc)
    /\ UNCHANGED <<env, db, locals, exc, hist>>

\* Lines 108-109: the script is run again, on the store as the last run
\* left it.
NewRun ==
    /\ resp' = NoResponse
    /\ pc = "exit"
    /\ pc' = "main"
    /\ conn' = "none"
    /\ txn' = NoWrites
    /\ rows' = <<>>
    /\ total' = 0
    /\ updated' = 0
    /\ i' = 0
    /\ q' = ""
    /\ lat' = None
    /\ lng' = None
    /\ exc' = ""
    /\ exit' = "running"
    /\ log' = <<>>
    /\ persisted' = persisted \cup committed
    /\ committed' = {}
    /\ db0' = db
    /\ UNCHANGED <<env, db>>

Next ==
    \/ Config
    \/ Connect
    \/ Fetch
    \/ For
    \/ Geocode
    \/ Backoff
    \/ Retry
    \/ Write
    \/ Pace
    \/ Commit
    \/ Except
    \/ Finally
    \/ NewRun

Spec == Init /\ [][Next]_vars

(***************************************************************************)
(* Reading the log.                                                        *)
(***************************************************************************)
Entries == 1..Len(log)
Has(what, detail) == \E k \in Entries : log[k][1] = what /\ log[k][3] = detail
Did(what) == \E k \in Entries : log[k][1] = what
IsPace(e) == e[1] = "sleep" /\ e[4] = <<PaceMillis>>
IsBackoff(e) == e[1] = "sleep" /\ e[4] = <<BackoffMillis>>

\* The positions of the log at which the geocoder was called for a row.
CallsOf(id) == {k \in Entries : log[k][1] = "geocode" /\ log[k][2] = id}
FirstCall(k) ==
    /\ log[k][1] = "geocode"
    /\ \A j \in 1..(k - 1) : ~(log[j][1] = "geocode" /\ log[j][2] = log[k][2])
SecondCall(k) == log[k][1] = "geocode" /\ ~FirstCall(k)
UpdatesOf(id) == {k \in Entries : log[k][1] = "update" /\ log[k][2] = id}
PacesOf(id) == {k \in Entries : IsPace(log[k]) /\ log[k][2] = id}

\* The run has left the loop body of fetched row j behind without raising.
Passed(j) ==
    /\ j \in 1..i
    /\ \/ j < i
       \/ pc \in {"for", "commit"}
       \/ Did("commit")

\* Every text field of the row is absent or empty.
Blank(r) ==
    {r.name, r.address, r.city, r.state, r.zip_code} \subseteq {None, Some("")}

(***************************************************************************)
(* C1: a row whose first call fails with the quota error and whose retry   *)
(* fails too is left alone and the run goes on: no exception is in flight, *)
(* nothing is rolled back.  The code raises the retry's exception out of   *)
(* the quota handler, so this does not hold.                               *)
(***************************************************************************)
C1_RetryFailureIsContained ==
    \A k \in Entries :
        (SecondCall(k) /\ log[k][3] \in {"RuntimeError", "Exception"})
            => /\ exc = ""
               /\ pc \notin {"except"}
               /\ ~Did("rollback")
               /\ exit # "nonzero"

(***************************************************************************)
(* C2: once an UPDATE has failed, whatever the number of UPDATEs that      *)
(* succeeded before it, the run never commits, the table stays as it was   *)
(* when the run started, the exception stays in flight through the         *)
(* rollback, and the process ends with a non-zero status.                  *)
(***************************************************************************)
C2_FailedUpdateRollsBackAll ==
    Has("update", "fail") =>
        /\ ~Did("commit")
        /\ db = db0
        /\ committed = {}
        /\ exc = "Exception"
        /\ pc \in {"except", "finally", "exit"}
        /\ pc \in {"finally", "exit"} => (Did("rollback") /\ txn = NoWrites)
        /\ pc = "exit" => exit = "nonzero"

C2_Witness ==
    /\ pc = "exit"
    /\ Has("update", "fail")
    /\ Has("update", "ok")
    /\ updated >= 1

C4_OtherErrorIsContained ==
    \A k \in Entries :
        (FirstCall(k) /\ log[k][3] = "Exception") =>
            LET id == log[k][2] IN
            /\ CallsOf(id) = {k}
            /\ UpdatesOf(id) = {}
            /\ txn[id] = None
            /\ k = Len(log) =>
                  /\ pc = "write" /\ lat = None /\ lng = None /\ exc = ""
            /\ k < Len(log) => log[k + 1][1] = "nomatch" /\ log[k + 1][2] = id
            /\ (k < Len(log) /\ rows[i].id = id) =>
                  /\ pc \in {"sleep", "for", "commit", "except", "finally", "exit"}
                  /\ pc \in {"sleep", "for"} => exc = ""
                  /\ pc \in {"except", "finally", "exit"} => Did("commit")

C4_Witness ==
    /\ pc = "geocode"
    /\ i = 2
    /\ \E k \in Entries :
          FirstCall(k) /\ log[k][3] = "Exception" /\ log[k][2] = rows[1].id

(***************************************************************************)
(* C5: a pair returned by the second call for a row comes after the quota  *)
(* error of the first call and the 10 s pause, in that order; the run is   *)
(* then about to issue the UPDATE with exactly that pair and with no       *)
(* exception in flight, and the UPDATE, when the store accepts it, writes  *)
(* that pair for that row and adds one to the updated counter.             *)
(***************************************************************************)
C5_Order ==
    \A k \in Entries :
        (SecondCall(k) /\ log[k][3] = "pair") =>
            LET id == log[k][2] IN
            /\ k >= 3
            /\ IsBackoff(log[k - 1]) /\ log[k - 1][2] = id
            /\ log[k - 2] = <<"geocode", id, "RuntimeError", None>>
            /\ Cardinality({n \in Entries : IsBackoff(log[n]) /\ log[n][2] = id}) = 1
            /\ k = Len(log) =>
                  /\ pc = "write" /\ exc = "" /\ rows[i].id = id
                  /\ <<lat[1], lng[1]>> = log[k][4]
            /\ k < Len(log) =>
                  /\ log[k + 1][1] = "update"
                  /\ log[k + 1][2] = id
                  /\ log[k + 1][4] = log[k][4]
                  /\ log[k + 1][3] = "ok" =>
                        /\ UpdatesOf(id) = {k + 1}
                        /\ IF id \in committed
                           THEN /\ db[id].latitude = Some(log[k][4][1])
                                /\ db[id].longitude = Some(log[k][4][2])
                           ELSE Did("rollback") \/ Did("close")
                                \/ txn[id] = log[k][4]
                        /\ (k + 1 = Len(log) \/ (k + 2 = Len(log)
                                /\ log[k + 2][1] = "progress"))
                              => pc = "sleep" /\ exc = ""

RetriedPair ==
    /\ Len(log) >= 3
    /\ SecondCall(Len(log))
    /\ log[Len(log)][3] = "pair"

C5_Step ==
    (pc = "write" /\ RetriedPair /\ pc' = "sleep") =>
        /\ updated' = updated + 1
        /\ txn' = [txn EXCEPT ![rows[i].id] = log[Len(log)][4]]
        /\ i' = i

\* C5: the order and the result of a successful retry hold in every state, and
\* the accepted UPDATE of a retried row adds exactly one to the counter.
C5_RetrySuccessUpdates == []C5_Order /\ [][C5_Step]_vars

C5_Witness ==
    /\ pc = "exit"
    /\ exit = "zero"
    /\ \E k \in Entries :
          /\ SecondCall(k) /\ log[k][3] = "pair"
          /\ log[k][2] \in committed
          /\ db[log[k][2]].latitude = Some(log[k][4][1])
          /\ db0[log[k][2]].latitude = None

(***************************************************************************)
(* C6: the geocoder is called at most twice for a row, and only for        *)
(* fetched rows; a second call follows a first call that raised the quota  *)
(* error, and such a first call is followed by exactly one more call (once *)
(* the run is past the retry); after any other first outcome the row has   *)
(* exactly one call.                                                       *)
(***************************************************************************)
C6_AtMostOneRetry ==
    \A id \in Ids :
        LET c == CallsOf(id) IN
        /\ Cardinality(c) <= 2
        /\ c # {} => \E j \in 1..i : rows[j].id = id
        /\ \A k \in c :
              /\ SecondCall(k) =>
                    \E j \in c : j < k /\ FirstCall(j)
                                 /\ log[j][3] = "RuntimeError"
              /\ (FirstCall(k) /\ log[k][3] # "RuntimeError") => c = {k}
              /\ (FirstCall(k) /\ log[k][3] = "RuntimeError") =>
                    \/ Cardinality(c) = 2
                    \/ rows[i].id = id /\ pc \in {"backoff", "retry"}

C6_Witness ==
    /\ pc = "exit"
    /\ \E a, b \in Ids :
          Cardinality(CallsOf(a)) = 2 /\ Cardinality(CallsOf(b)) = 1

(***************************************************************************)
(* C7: a fetched row whose five text fields are all absent or empty gets   *)
(* an empty query: the geocoder is never called for it and no UPDATE is    *)
(* issued for it; the step that takes it up advances i by one, leaves the  *)
(* updated counter and the store alone, and returns to the head of the     *)
(* loop.                                                                   *)
(***************************************************************************)
C7_Never ==
    \A j \in 1..i :
        Blank(rows[j]) =>
            /\ CallsOf(rows[j].id) = {}
            /\ UpdatesOf(rows[j].id) = {}
            /\ txn[rows[j].id] = None
            /\ j = i => (q = "" /\ pc \notin {"geocode", "backoff", "retry",
                                              "write", "sleep"})

C7_Step ==
    (pc = "for" /\ i < total /\ Blank(rows[i + 1])) =>
        /\ i' = i + 1
        /\ q' = ""
        /\ pc' = "for"
        /\ updated' = updated
        /\ txn' = txn
        /\ db' = db
        /\ log' \in {log, Append(log, <<"progress", i + 1, "", <<updated>>>>)}

\* C7: a blank row is never geocoded or updated, and the step that takes it
\* up only advances i.
C7_EmptyQuerySkipsRow == []C7_Never /\ [][C7_Step]_vars

C7_Witness ==
    /\ pc = "geocode"
    /\ i = 2
    /\ Blank(rows[1])
    /\ updated = 0

(***************************************************************************)
(* C8: the connection is closed at most once in a run; a run that opened   *)
(* it has, when the process ends, closed it exactly once, as its last      *)
(* call, right after the successful commit or the rollback.                *)
(***************************************************************************)
Closes == {k \in Entries : log[k][1] = "close"}

C8_ClosedOnceLast ==
    /\ Cardinality(Closes) <= 1
    /\ (conn = "closed") <=> (Closes # {})
    /\ (pc = "exit" /\ Has("connect", "ok")) =>
          /\ conn = "closed"
          /\ Closes = {Len(log)}
          /\ \/ log[Len(log) - 1] = <<"commit", 0, "ok", None>>
             \/ log[Len(log) - 1][1] = "rollback"

C8_Witness ==
    /\ pc = "exit"
    /\ Has("commit", "fail")
    /\ Did("rollback")
    /\ Closes = {Len(log)}

(***************************************************************************)
(* C9: commit is attempted at most once, after the last fetched row; a run *)
(* that opened the connection ends with status zero exactly when that      *)
(* commit succeeded, and otherwise has rolled back, has left the table as  *)
(* it was, and ends with the exception and a non-zero status.              *)
(***************************************************************************)
Commits == {k \in Entries : log[k][1] = "commit"}

C9_SuccessIffCommitted ==
    /\ Cardinality(Commits) <= 1
    /\ \A k \in Commits :
          /\ Has("fetch", "ok")
          /\ i = total
          /\ \A n \in (k + 1)..Len(log) : log[n][1] \in {"rollback", "close"}
    /\ Has("commit", "ok") => (~Did("rollback") /\ exc = "")
    /\ (pc = "exit" /\ Has("connect", "ok")) =>
          /\ exit \in {"zero", "nonzero"}
          /\ (exit = "zero") <=> Has("commit", "ok")
          /\ exit = "nonzero" =>
                /\ Did("rollback")
                /\ db = db0
                /\ committed = {}
                /\ exc # ""

C9_Witness ==
    /\ pc = "exit"
    /\ exit = "zero"
    /\ total >= 2
    /\ updated = 0
    /\ db = db0

(***************************************************************************)
(* C10: a row whose UPDATE a run committed has both coordinates, and no    *)
(* later run fetches it, calls the geocoder for it or issues an UPDATE for *)
(* it; a run calls the geocoder and issues UPDATEs only for rows that      *)
(* missed a coordinate when it started.                                    *)
(***************************************************************************)
C10_UpdatedRowsAreNotRefetched ==
    /\ \A id \in persisted \cup committed :
          db[id].latitude # None /\ db[id].longitude # None
    /\ \A id \in persisted :
          /\ \A j \in 1..Len(rows) : rows[j].id # id
          /\ CallsOf(id) = {}
          /\ UpdatesOf(id) = {}
    /\ \A id \in Ids :
          (CallsOf(id) # {} \/ UpdatesOf(id) # {} \/ txn[id] # None) =>
              (db0[id].latitude = None \/ db0[id].longitude = None)

C10_Witness ==
    /\ pc = "exit"
    /\ exit = "zero"
    /\ persisted # {}
    /\ committed # {}

(***************************************************************************)
(* C11: a coordinate pair returned by the geocoder (by the first call or   *)
(* by the retry), the origin <<0, 0>> included, is followed at once by     *)
(* the row's only UPDATE, which carries the row's id and exactly that      *)
(* pair; the UPDATE the store accepts sets both columns to the pair and    *)
(* adds exactly one to the updated counter.                                *)
(***************************************************************************)
C11_Issued ==
    \A k \in Entries :
        (log[k][1] = "geocode" /\ log[k][3] = "pair") =>
            LET id == log[k][2] IN
            /\ k = Len(log) =>
                  /\ pc = "write" /\ rows[i].id = id
                  /\ lat = Some(log[k][4][1]) /\ lng = Some(log[k][4][2])
            /\ k < Len(log) =>
                  /\ UpdatesOf(id) = {k + 1}
                  /\ log[k + 1][4] = log[k][4]
                  /\ log[k + 1][3] = "ok" =>
                        IF id \in committed
                        THEN /\ db[id].latitude = Some(log[k][4][1])
                             /\ db[id].longitude = Some(log[k][4][2])
                        ELSE Did("rollback") \/ Did("close")
                             \/ txn[id] = log[k][4]

C11_Step ==
    (pc = "write" /\ log[Len(log)][1] = "geocode" /\ log[Len(log)][3] = "pair")
        => /\ pc' \in {"sleep", "except"}
           /\ Len(log') >= Len(log) + 1
           /\ log'[Len(log) + 1][1] = "update"
           /\ pc' = "sleep" =>
                 /\ updated' = updated + 1
                 /\ txn' = [txn EXCEPT ![rows[i].id] = log[Len(log)][4]]
           /\ pc' = "except" => (updated' = updated /\ txn' = txn)

\* C11: the pair is written as returned, once, and counted once.
C11_PairIsWrittenOnce == []C11_Issued /\ [][C11_Step]_vars

C11_Witness ==
    /\ pc = "exit"
    /\ exit = "zero"
    /\ \E k \in Entries :
          /\ FirstCall(k)
          /\ log[k] = <<"geocode", log[k][2], "pair", PairB>>
          /\ db[log[k][2]].latitude = Some(0)
          /\ db[log[k][2]].longitude = Some(0)
          /\ db0[log[k][2]].longitude = None
          /\ updated = 1

(***************************************************************************)
(* Reading a response the way the provider's protocol defines it.          *)
(***************************************************************************)
Answered(r) == r.transport = "ok" /\ r.code = 200 /\ r.json
QuotaStatus(r) ==
    r.status \in {Some("OVER_QUERY_LIMIT"), Some("RESOURCE_EXHAUSTED")}
HasResult(r) == r.status = Some("OK") /\ Len(r.results) >= 1
NoMatchAnswer(r) == Answered(r) /\ ~QuotaStatus(r) /\ ~HasResult(r)

(***************************************************************************)
(* C12: when the provider answers "no match" (a status that is neither OK  *)
(* nor a quota status, or OK without results), the call returns no         *)
(* coordinates and raises nothing; the row is then reported as not matched *)
(* with the updated counter, the transaction and the table left alone, and *)
(* the run goes on to the pause.  No UPDATE is ever issued for a row whose *)
(* last call returned no match, and its stored coordinates stay as fetched.*)
(***************************************************************************)
C12_Never ==
    /\ NoMatchAnswer(resp) =>
          /\ pc = "write" /\ exc = "" /\ lat = None /\ lng = None
          /\ log[Len(log)] = <<"geocode", rows[i].id, "none", None>>
    /\ \A k \in Entries :
          (log[k][1] = "geocode" /\ log[k][3] = "none") =>
              LET id == log[k][2] IN
              /\ UpdatesOf(id) = {}
              /\ txn[id] = None
              /\ id \notin committed
              /\ db[id].latitude = db0[id].latitude
              /\ db[id].longitude = db0[id].longitude
              /\ \E j \in 1..i : /\ rows[j].id = id
                                 /\ rows[j].latitude = db[id].latitude
                                 /\ rows[j].longitude = db[id].longitude
              /\ k < Len(log) => (log[k + 1][1] = "nomatch" /\ log[k + 1][2] = id)

C12_Step ==
    NoMatchAnswer(resp)
        => /\ pc' = "sleep"
           /\ updated' = updated
           /\ txn' = txn
           /\ db' = db
           /\ exc' = ""
           /\ log'[Len(log) + 1] = <<"nomatch", rows[i].id, q, None>>

\* C12: no match never writes and never counts.
C12_NoMatchWritesNothing == []C12_Never /\ [][C12_Step]_vars

C12_Witness ==
    /\ pc = "exit"
    /\ exit = "zero"
    /\ total = 2
    /\ updated = 1
    /\ \E k \in Entries :
          /\ log[k][1] = "geocode" /\ log[k][3] = "none"
          /\ log[k][2] = rows[1].id
          /\ db[rows[1].id].latitude = None

(***************************************************************************)
(* C13: when the connection string or the API key is absent or empty, the  *)
(* run ends with a non-zero status at the configuration test: it never     *)
(* opens a connection and never fetches, calls the geocoder, issues an     *)
(* UPDATE, commits or rolls back, and the table is untouched.              *)
(***************************************************************************)
Unset(v) == v \in {None, Some("")}

C13_NoWorkWithoutConfig ==
    (Unset(PG_DSN) \/ Unset(GOOGLE_KEY)) =>
        /\ pc \in {"main", "exit"}
        /\ pc = "exit" => (exit = "nonzero" /\ exc = "SystemExit")
        /\ pc = "main" => exit = "running"
        /\ conn = "none"
        /\ log = <<>>
        /\ rows = <<>>
        /\ txn = NoWrites
        /\ db = db0
        /\ resp = NoResponse
        /\ committed = {}
        /\ persisted = {}

C13_Witness ==
    /\ pc = "exit"
    /\ exit = "nonzero"
    /\ PG_DSN = Some("set")
    /\ GOOGLE_KEY = Some("")
    /\ \E id \in Ids : db[id].latitude = None /\ ~Blank(db[id])

(***************************************************************************)
(* C14: for a successful HTTP response with a parsed body whose results,   *)
(* if any, carry a location, the call just made has exactly one of three   *)
(* outcomes: status OK with at least one result returns the first result's *)
(* pair; status OVER_QUERY_LIMIT or RESOURCE_EXHAUSTED raises the quota    *)
(* error, with or without results; every other combination (another or a   *)
(* missing status, or OK without results) returns no match and raises      *)
(* nothing.                                                                *)
(***************************************************************************)
WellFormed(r) == \A n \in 1..Len(r.results) : r.results[n] # None

C14_Classification ==
    (Answered(resp) /\ WellFormed(resp)) =>
        LET last == log[Len(log)] IN
        /\ last[1] = "geocode"
        /\ last[2] = rows[i].id
        /\ HasResult(resp) =>
              /\ last[3] = "pair"
              /\ last[4] = resp.results[1]
              /\ pc = "write" /\ exc = ""
              /\ lat = Some(resp.results[1][1])
              /\ lng = Some(resp.results[1][2])
        /\ QuotaStatus(resp) =>
              /\ last[3] = "RuntimeError"
              /\ last[4] = None
              /\ \/ pc = "backoff" /\ exc = ""
                 \/ pc = "except" /\ exc = "RuntimeError"
        /\ (~HasResult(resp) /\ ~QuotaStatus(resp)) =>
              /\ last[3] = "none"
              /\ last[4] = None
              /\ pc = "write" /\ exc = ""
              /\ lat = None /\ lng = None

C14_Witness ==
    /\ Answered(resp)
    /\ resp.status = Some("RESOURCE_EXHAUSTED")
    /\ pc = "backoff"
    /\ i = 2
    /\ \E k \in Entries :
          log[k] = <<"geocode", rows[1].id, "pair", PairB>>

(***************************************************************************)
(* C15: a run executes the fetch query at most once, and exactly once when *)
(* it has got past it, before any geocoder call or UPDATE; the fetched     *)
(* rows are in ascending id order and are taken up in that order, one      *)
(* position at a time, so that no row is processed twice and, when the run *)
(* reaches commit, every row has been processed exactly once; at most one  *)
(* UPDATE is issued per fetched row, and only for fetched rows.            *)
(***************************************************************************)
Fetches == {k \in Entries : log[k][1] = "fetch"}
RowEntries ==
    {k \in Entries : log[k][1] \in {"geocode", "update", "nomatch", "sleep"}}
Results(id) ==
    {k \in Entries : log[k][1] \in {"update", "nomatch"} /\ log[k][2] = id}

C15_Order ==
    /\ Cardinality(Fetches) <= 1
    /\ pc \in {"for", "geocode", "backoff", "retry", "write", "sleep", "commit"}
          => Fetches = {2} /\ log[2][3] = "ok"
    /\ \A k \in RowEntries : Fetches = {2} /\ log[2][3] = "ok" /\ k > 2
    /\ \A a, b \in 1..Len(rows) : a < b => rows[a].id < rows[b].id
    /\ i \in 0..total /\ total = Len(rows)
    /\ \A k \in RowEntries : \E j \in 1..i : rows[j].id = log[k][2]
    /\ \A a, b \in RowEntries : a < b => log[a][2] <= log[b][2]
    /\ \A j \in 1..Len(rows) :
          /\ Cardinality(UpdatesOf(rows[j].id)) <= 1
          /\ Cardinality(Results(rows[j].id)) <= 1
          /\ Cardinality(PacesOf(rows[j].id)) <= 1
          /\ j > i => (CallsOf(rows[j].id) = {} /\ Results(rows[j].id) = {})
    /\ Did("commit") =>
          /\ i = total
          /\ \A j \in 1..total :
                Cardinality(Results(rows[j].id)) =
                    (IF Blank(rows[j]) THEN 0 ELSE 1)

C15_Step ==
    /\ pc # "exit" => i' \in {i, i + 1}
    /\ pc \notin {"fetch", "exit"} => rows' = rows
    /\ i' = i + 1 => (pc = "for" /\ q' = make_query(rows[i + 1]))

\* C15: one fetch, then the rows in fetched order, each once.
C15_FetchOnceRowsInOrder == []C15_Order /\ [][C15_Step]_vars

C15_Witness ==
    /\ pc = "exit"
    /\ exit = "zero"
    /\ total = 2
    /\ updated = 2
    /\ rows[1].id = 1 /\ rows[2].id = 2
    /\ committed = {1, 2}

(***************************************************************************)
(* The run as a sequential program: a statement that can be executed is    *)
(* executed, and every call returns or raises (the HTTP call within its    *)
(* 15 s timeout).  Starting the script again is up to the operator.        *)
(***************************************************************************)
RunStep ==
    \/ Config
    \/ Connect
    \/ Fetch
    \/ For
    \/ Geocode
    \/ Backoff
    \/ Retry
    \/ Write
    \/ Pace
    \/ Commit
    \/ Except
    \/ Finally

FairSpec == Init /\ [][Next]_vars /\ WF_vars(RunStep)

(***************************************************************************)
(* C16: whatever the geocoder and the store answer, a started run ends,    *)
(* and a run that opened the connection ends with it closed after the      *)
(* successful commit or the rollback; for each row the run makes at most   *)
(* two geocoder calls, one 10 s pause and one 0.15 s pause, so its log is  *)
(* bounded by the number of fetched rows.                                  *)
(***************************************************************************)
BackoffsOf(id) == {k \in Entries : IsBackoff(log[k]) /\ log[k][2] = id}

C16_Bounded ==
    /\ \A id \in Ids :
          /\ Cardinality(CallsOf(id)) <= 2
          /\ Cardinality(BackoffsOf(id)) <= 1
          /\ Cardinality(PacesOf(id)) <= 1
    /\ Len(log) <= 5 + 6 * total
    /\ total <= MaxRows

C16_Terminates ==
    /\ []C16_Bounded
    /\ (pc = "main") ~>
          /\ pc = "exit"
          /\ \/ ~Has("connect", "ok") /\ conn = "none"
             \/ /\ conn = "closed"
                /\ Has("commit", "ok") \/ Did("rollback")
    /\ [](conn = "open" => pc \notin {"main", "exit"})

C16_Witness ==
    /\ pc = "exit"
    /\ conn = "closed"
    /\ total = 2
    /\ Cardinality(CallsOf(rows[1].id)) = 2
    /\ Cardinality(BackoffsOf(rows[1].id)) = 1
    /\ Cardinality(PacesOf(rows[1].id)) = 1
    /\ \E k \in CallsOf(rows[2].id) :
          SecondCall(k) /\ log[k][3] = "RuntimeError"

(***************************************************************************)
(* C17: the updated counter equals the number of UPDATEs the store has     *)
(* accepted so far in this run, and updated <= i <= total; every progress  *)
(* line reports the counter as it stood; once the run has committed, the   *)
(* counter equals the number of distinct rows whose coordinates the run    *)
(* persisted.                                                              *)
(***************************************************************************)
Accepted(n) ==
    {k \in 1..n : log[k][1] = "update" /\ log[k][3] = "ok"}

C17_CounterMatchesUpdates ==
    /\ updated = Cardinality(Accepted(Len(log)))
    /\ updated <= i
    /\ i <= total
    /\ total = Len(rows)
    /\ \A k \in Entries :
          log[k][1] = "progress" =>
              /\ log[k][4] = <<Cardinality(Accepted(k))>>
              /\ log[k][2] \in 1..i
    /\ Has("commit", "ok") =>
          /\ updated = Cardinality(committed)
          /\ committed = {id \in Ids : db[id] # db0[id]}
          /\ committed = {log[k][2] : k \in Accepted(Len(log))}
          /\ \A id \in committed :
                db[id].latitude # None /\ db[id].longitude # None
    /\ ~Has("commit", "ok") => db = db0

C17_Witness ==
    /\ pc = "exit"
    /\ exit = "zero"
    /\ total = 2
    /\ updated = 1
    /\ Cardinality({id \in Ids : db[id] # db0[id]}) = 1

====
